---- MODULE Spec2Model ----
(***************************************************************************)
(* The transform phase of umich-consumer-sentiment                         *)
(* (src/src/transforms/sentiment/main.py and test.py): parse_date,         *)
(* parse_float, the three process_* procedures and run().                  *)
(*                                                                         *)
(* Texts are TLA+ strings. A Python value that may be None is a sequence   *)
(* of length at most one: None is <<>> and a value v is <<v>>; the cells   *)
(* of the output records are such values.                                  *)
(***************************************************************************)
EXTENDS Integers, Sequences, FiniteSets, TLC

VARIABLES
    pc,         \* position of run(): see the actions below
    cur,        \* index in DATASETS of the processor being called
    reader,     \* rows the csv.DictReader has still to yield: [head, pad, tail]
    row,        \* the loop variable `row` (<<>> before the first iteration)
    processed,  \* the list `processed` of the running processor
    table,      \* the table built from `processed`
    calls,      \* calls made to subsets_utils so far, in order: <<function, id>>
    err,        \* the exception that left run() ("none" while there is none)
    pd_args,    \* parse_date called on its own: <<month_str, year_str>>
    pd_result   \* and its outcome: [raised, value]; <<>> before the call

vars == <<pc, cur, reader, row, processed, table, calls, err, pd_args, pd_result>>

----------------------------------------------------------------------------
(* Bounds of the model. *)

\* rows of a file other than the block of identical rows, at most
MaxFree == 1
\* how many lengths above MIN_ROWS - 1 the block of identical rows may have
MaxOver == 1
\* digits after the decimal point in the numeric texts
MaxFrac == 2

----------------------------------------------------------------------------
(* Python values *)

None == <<>>
Some(v) == <<v>>

----------------------------------------------------------------------------
(* Text helpers: str.strip, int(), float(), format *)

Char(s, i) == SubSeq(s, i, i)

Digits == {"0", "1", "2", "3", "4", "5", "6", "7", "8", "9"}

DigitVal(c) ==
    CASE c = "0" -> 0 [] c = "1" -> 1 [] c = "2" -> 2 [] c = "3" -> 3
      [] c = "4" -> 4 [] c = "5" -> 5 [] c = "6" -> 6 [] c = "7" -> 7
      [] c = "8" -> 8 [] c = "9" -> 9

DigitChar(d) ==
    CASE d = 0 -> "0" [] d = 1 -> "1" [] d = 2 -> "2" [] d = 3 -> "3"
      [] d = 4 -> "4" [] d = 5 -> "5" [] d = 6 -> "6" [] d = 7 -> "7"
      [] d = 8 -> "8" [] d = 9 -> "9"

RECURSIVE LStrip(_)
LStrip(s) == IF Len(s) > 0 /\ Char(s, 1) = " " THEN LStrip(Tail(s)) ELSE s

RECURSIVE RStrip(_)
RStrip(s) ==
    IF Len(s) > 0 /\ Char(s, Len(s)) = " "
    THEN RStrip(SubSeq(s, 1, Len(s) - 1))
    ELSE s

\* str.strip()
Strip(s) == RStrip(LStrip(s))

AllDigits(s) == Len(s) > 0 /\ \A i \in 1..Len(s) : Char(s, i) \in Digits

RECURSIVE NatOf(_)
NatOf(s) ==
    IF Len(s) = 0 THEN 0
    ELSE 10 * NatOf(SubSeq(s, 1, Len(s) - 1)) + DigitVal(Char(s, Len(s)))

Signed(s) == Len(s) > 0 /\ Char(s, 1) \in {"-", "+"}
Unsigned(s) == IF Signed(s) THEN Tail(s) ELSE s

\* int(s) succeeds, for texts of signs, ASCII digits and letters: an optional
\* sign and decimal digits
IsIntText(s) == AllDigits(Unsigned(s))

\* int(s), for a text it accepts
IntOf(s) ==
    IF Signed(s) /\ Char(s, 1) = "-" THEN 0 - NatOf(Tail(s)) ELSE NatOf(Unsigned(s))

RECURSIVE NatText(_)
NatText(n) ==
    IF n < 10 THEN DigitChar(n) ELSE NatText(n \div 10) \o DigitChar(n % 10)

\* format(year, ""): the decimal digits, no padding
IntText(n) == IF n < 0 THEN "-" \o NatText(0 - n) ELSE NatText(n)

RECURSIVE ZeroPad(_, _)
ZeroPad(s, w) == IF Len(s) >= w THEN s ELSE ZeroPad("0" \o s, w)

\* format(month, "02d"), for month >= 0
Format02d(n) == ZeroPad(NatText(n), 2)

RECURSIVE Pow10(_)
Pow10(n) == IF n = 0 THEN 1 ELSE 10 * Pow10(n - 1)

RECURSIVE DotAt(_, _)
\* the position of the first "." of s at or after i, 0 when there is none
DotAt(s, i) ==
    IF i > Len(s) THEN 0 ELSE IF Char(s, i) = "." THEN i ELSE DotAt(s, i + 1)

OptDigits(s) == Len(s) = 0 \/ AllDigits(s)

\* float(s) succeeds, for texts made of signs, digits, "." and other letters:
\* an optional sign, then digits with at most one ".", at least one digit
IsFloatText(s) ==
    LET u == Unsigned(s)
        d == DotAt(u, 1)
    IN  IF d = 0 THEN AllDigits(u)
        ELSE LET ip == SubSeq(u, 1, d - 1)
                 fp == SubSeq(u, d + 1, Len(u))
             IN  OptDigits(ip) /\ OptDigits(fp) /\ Len(ip) + Len(fp) > 0

\* float(s), for a text it accepts, in units of 10^-MaxFrac
FloatOf(s) ==
    LET u  == Unsigned(s)
        d  == DotAt(u, 1)
        ip == IF d = 0 THEN u ELSE SubSeq(u, 1, d - 1)
        fp == IF d = 0 THEN "" ELSE SubSeq(u, d + 1, Len(u))
        fq == SubSeq(fp, 1, IF Len(fp) < MaxFrac THEN Len(fp) ELSE MaxFrac)
        m  == NatOf(ip) * Pow10(MaxFrac) + NatOf(fq) * Pow10(MaxFrac - Len(fq))
    IN  IF Signed(s) /\ Char(s, 1) = "-" THEN 0 - m ELSE m

----------------------------------------------------------------------------
(* main.py: constants, parse_date, parse_float *)

\* the cutoff one year early
START_YEAR_off_by_one == 1978 - 1

START_YEAR == 1978

MONTH_MAP ==
    ("January" :> 1) @@ ("February" :> 2) @@ ("March" :> 3) @@ ("April" :> 4)
    @@ ("May" :> 5) @@ ("June" :> 6) @@ ("July" :> 7) @@ ("August" :> 8)
    @@ ("September" :> 9) @@ ("October" :> 10) @@ ("November" :> 11)
    @@ ("December" :> 12)

\* dict.get(key): None when the key is absent
DictGet(d, key) == IF key \in DOMAIN d THEN Some(d[key]) ELSE None

\* the f-string of parse_date
DateText(year, month) == IntText(year) \o "-" \o Format02d(month)

\* parse_date(month_str, year_str): [raised, value]; int() raises ValueError on
\* a year text that is no integer, whatever the month
parse_date(month_str, year_str) ==
    LET month == DictGet(MONTH_MAP, Strip(month_str))
    IN  IF ~IsIntText(Strip(year_str))
        THEN [raised |-> TRUE, value |-> None]
        ELSE IF month # None
             THEN [raised |-> FALSE,
                   value |-> Some(DateText(IntOf(Strip(year_str)), month[1]))]
             ELSE [raised |-> FALSE, value |-> None]

\* parse_float with a text float() rejects taken as 0.0
parse_float_zero(value) ==
    IF value = None THEN None
    ELSE LET v == Strip(value[1])
         IN  IF IsFloatText(v) THEN Some(FloatOf(v)) ELSE Some(0)

\* parse_float(value): value is None or Some(text); the result None or Some(float)
parse_float(value) ==
    IF value = None THEN None
    ELSE LET v == Strip(value[1])
         IN  IF v = "" \/ v = "." THEN None
             ELSE IF IsFloatText(v) THEN Some(FloatOf(v)) ELSE None

----------------------------------------------------------------------------
(* The raw data: keys of run(), ids of the dataset configurations, and the   *)
(* rows a csv.DictReader yields.                                             *)

\* the keys run() looks up in raw_data, in its order
DATASETS == <<"consumer_sentiment", "sentiment_components", "inflation_expectations">>

\* CONSUMER_SENTIMENT["id"], SENTIMENT_COMPONENTS["id"], INFLATION_EXPECTATIONS["id"]
DATASET_ID ==
    <<"umich_consumer_sentiment", "umich_sentiment_components",
      "umich_inflation_expectations">>

\* test.py: the "min_rows" of the three schemas
MIN_ROWS == 100

\* test.py: the "not_null" of the three schemas
NOT_NULL == << {"month", "index"}, {"month"}, {"month"} >>

YearTexts == {"1977", " 1978 ", "10000", "abc"}
MonthTexts == {" March ", "Marchh", ""}
\* a numeric cell: None when the row has no such cell (a short line, or a
\* header without the column); the YYYY and Month cells of a row are texts
NumCells == {None, Some(" 95.5 "), Some("."), Some(""), Some("abc")}

ConsumerSentimentRows ==
    [YYYY : YearTexts, Month : MonthTexts, ICS_ALL : NumCells]
SentimentComponentsRows ==
    [YYYY : YearTexts, Month : MonthTexts, ICC : NumCells, ICE : NumCells]
InflationExpectationsRows ==
    [YYYY : YearTexts, Month : MonthTexts, PX_MD : NumCells, PX5_MD : NumCells]

\* the rows of the block of identical rows
ConsumerSentimentBlockRow ==
    [YYYY |-> "2021", Month |-> "February", ICS_ALL |-> Some("80.1")]
SentimentComponentsBlockRow ==
    [YYYY |-> "2021", Month |-> "February", ICC |-> Some("80.1"), ICE |-> Some("70")]
InflationExpectationsBlockRow ==
    [YYYY |-> "2021", Month |-> "February", PX_MD |-> Some("3.1"), PX5_MD |-> Some("2.9")]

\* a file: `head` arbitrary rows, a block of `pad` identical rows, `tail`
\* arbitrary rows; `drop` is a column its header lacks ("" when it has all)
Files ==
    { f \in [head : 0..MaxFree, pad : {0} \cup (MIN_ROWS - 1 .. MIN_ROWS - 1 + MaxOver),
             tail : 0..MaxFree, drop : {"", "YYYY", "Month"}] :
        f.head + f.tail <= MaxFree }

NoFile == [head |-> 0, pad |-> 0, tail |-> 0, drop |-> ""]

\* a row as the reader hands it over: the keys of the header only
Keyed(r) == [k \in (DOMAIN r) \ {reader.drop} |-> r[k]]

\* next(reader): the rows it may yield now, each with the reader after it; empty
\* at the end of the file
Yield(rows, blockrow) ==
    IF reader.head > 0
    THEN {<<Keyed(r), [reader EXCEPT !.head = @ - 1]>> : r \in rows}
    ELSE IF reader.pad > 0
    THEN {<<Keyed(blockrow), [reader EXCEPT !.pad = @ - 1]>>}
    ELSE IF reader.tail > 0
    THEN {<<Keyed(r), [reader EXCEPT !.tail = @ - 1]>> : r \in rows}
    ELSE {}

\* row.get(key, default)
RowGet(r, key, default) == IF key \in DOMAIN r THEN r[key] ELSE default

----------------------------------------------------------------------------
(* The loop bodies of the three processors: the row and the list so far give *)
(* [raised, processed].                                                      *)

\* int() raised ValueError: the loop is left with the list as it was
Raised(acc) == [raised |-> TRUE, processed |-> acc]
\* `continue`, or the end of the body
Continue(acc) == [raised |-> FALSE, processed |-> acc]

\* the record put in front of the list
Prepended(acc, record) == <<record>> \o acc

\* processed.append(record)
Appended(acc, record) == Append(acc, record)

consumer_sentiment_row(r, acc) ==
    LET ytext == Strip(RowGet(r, "YYYY", "0"))
    IN  IF ~IsIntText(ytext) THEN Raised(acc)
        ELSE IF IntOf(ytext) < START_YEAR THEN Continue(acc)
        ELSE LET month == parse_date(RowGet(r, "Month", ""), RowGet(r, "YYYY", ""))
             IN  IF month.raised THEN Raised(acc)
                 ELSE IF month.value = None THEN Continue(acc)
                 ELSE LET value == parse_float(RowGet(r, "ICS_ALL", None))
                      IN  IF value = None THEN Continue(acc)
                          ELSE Continue(Appended(acc,
                                   [month |-> month.value, index |-> value]))

sentiment_components_row(r, acc) ==
    LET ytext == Strip(RowGet(r, "YYYY", "0"))
    IN  IF ~IsIntText(ytext) THEN Raised(acc)
        ELSE IF IntOf(ytext) < START_YEAR THEN Continue(acc)
        ELSE LET month == parse_date(RowGet(r, "Month", ""), RowGet(r, "YYYY", ""))
             IN  IF month.raised THEN Raised(acc)
                 ELSE IF month.value = None THEN Continue(acc)
                 ELSE LET icc == parse_float(RowGet(r, "ICC", None))
                          ice == parse_float(RowGet(r, "ICE", None))
                      IN  IF icc = None /\ ice = None THEN Continue(acc)
                          ELSE Continue(Appended(acc,
                                   [month |-> month.value,
                                    index_current_conditions |-> icc,
                                    index_expectations |-> ice]))

inflation_expectations_row(r, acc) ==
    LET ytext == Strip(RowGet(r, "YYYY", "0"))
    IN  IF ~IsIntText(ytext) THEN Raised(acc)
        ELSE IF IntOf(ytext) < START_YEAR THEN Continue(acc)
        ELSE LET month == parse_date(RowGet(r, "Month", ""), RowGet(r, "YYYY", ""))
             IN  IF month.raised THEN Raised(acc)
                 ELSE IF month.value = None THEN Continue(acc)
                 ELSE LET px1 == parse_float(RowGet(r, "PX_MD", None))
                          px5 == parse_float(RowGet(r, "PX5_MD", None))
                      IN  IF px1 = None /\ px5 = None THEN Continue(acc)
                          ELSE Continue(Appended(acc,
                                   [month |-> month.value,
                                    inflation_1yr |-> px1,
                                    inflation_5yr |-> px5]))

----------------------------------------------------------------------------
(* subsets_utils: validate and assert_valid_month *)

\* validate(table, schema): the rows are at least min_rows and no not_null
\* column holds a null
validate(t, not_null, min_rows) ==
    /\ Len(t) >= min_rows
    /\ \A i \in 1..Len(t) : \A c \in not_null : t[i][c] # None

\* a text of the form YYYY-MM with MM in 01..12
IsMonthText(s) ==
    /\ Len(s) = 7
    /\ AllDigits(SubSeq(s, 1, 4))
    /\ Char(s, 5) = "-"
    /\ AllDigits(SubSeq(s, 6, 7))
    /\ NatOf(SubSeq(s, 6, 7)) \in 1..12

\* assert_valid_month(table, "month")
assert_valid_month(t) ==
    \A i \in 1..Len(t) : t[i].month # None /\ IsMonthText(t[i].month[1])

----------------------------------------------------------------------------
(* run() and the three processors *)

Init ==
    /\ pc = "run"
    /\ cur = 1
    /\ reader = NoFile
    /\ row = None
    /\ processed = <<>>
    /\ table = <<>>
    /\ calls = <<>>
    /\ err = "none"
    /\ pd_args = None
    /\ pd_result = None

\* the exception caught around the processor, and run() going on
RaiseContained(e) ==
    /\ err' = e
    /\ IF cur < Len(DATASETS)
       THEN pc' = "lookup" /\ cur' = cur + 1
       ELSE pc' = "done" /\ cur' = cur

\* an exception nothing catches: it leaves the processor, run() and main()
Raise(e) ==
    /\ pc' = "aborted"
    /\ err' = e
    /\ cur' = cur

\* raw_data = load_raw_json("sentiment_data")
LoadRawJson ==
    /\ pc = "run"
    /\ pc' = "lookup"
    /\ calls' = Append(calls, <<"load_raw_json", "sentiment_data">>)
    /\ UNCHANGED <<cur, reader, row, processed, table, err, pd_args, pd_result>>

\* process_...(raw_data[DATASETS[cur]]): the key is missing, or its text is
\* handed to the processor, which builds its reader and its empty list
Lookup ==
    /\ pc = "lookup"
    /\ \/ /\ Raise("KeyError")
          /\ UNCHANGED <<reader, row, processed>>
       \/ /\ \E f \in Files : reader' = f
          /\ row' = None
          /\ processed' = <<>>
          /\ pc' = "scan"
          /\ UNCHANGED <<cur, err>>
    /\ UNCHANGED <<table, calls, pd_args, pd_result>>

\* one iteration of `for row in reader`: y is the row yielded with the reader
\* after it, out what the loop body made of it
Iterate(y, out) ==
    /\ row' = Some(y[1])
    /\ reader' = y[2]
    /\ processed' = out.processed
    /\ IF out.raised
       THEN Raise("InvalidLiteral")
       ELSE UNCHANGED <<pc, cur, err>>
    /\ UNCHANGED <<table, calls, pd_args, pd_result>>

ScanConsumerSentiment ==
    /\ pc = "scan" /\ cur = 1
    /\ \E y \in Yield(ConsumerSentimentRows, ConsumerSentimentBlockRow) :
          Iterate(y, consumer_sentiment_row(y[1], processed))

ScanSentimentComponents ==
    /\ pc = "scan" /\ cur = 2
    /\ \E y \in Yield(SentimentComponentsRows, SentimentComponentsBlockRow) :
          Iterate(y, sentiment_components_row(y[1], processed))

ScanInflationExpectations ==
    /\ pc = "scan" /\ cur = 3
    /\ \E y \in Yield(InflationExpectationsRows, InflationExpectationsBlockRow) :
          Iterate(y, inflation_expectations_row(y[1], processed))

\* the end of the scan without the test for an empty list
EndScan_unguarded ==
    /\ pc = "scan"
    /\ reader.head = 0 /\ reader.pad = 0 /\ reader.tail = 0
    /\ table' = processed /\ pc' = "test"
    /\ UNCHANGED <<cur, err, reader, row, processed, calls, pd_args, pd_result>>

\* the reader is exhausted: `if not processed: raise ValueError(...)`, then
\* table = pa.Table.from_pylist(processed): the records, in the list's order
EndScan ==
    /\ pc = "scan"
    /\ reader.head = 0 /\ reader.pad = 0 /\ reader.tail = 0
    /\ IF processed = <<>>
       THEN Raise("NoData") /\ table' = table
       ELSE table' = processed /\ pc' = "test" /\ UNCHANGED <<cur, err>>
    /\ UNCHANGED <<reader, row, processed, calls, pd_args, pd_result>>

\* the test with its verdict ignored
TestTable_unchecked ==
    /\ pc = "test"
    /\ calls' = calls \o <<<<"validate", DATASET_ID[cur]>>,
                            <<"assert_valid_month", DATASET_ID[cur]>>>>
    /\ pc' = "upload"
    /\ UNCHANGED <<cur, err, reader, row, processed, table, pd_args, pd_result>>

\* test_...(table): validate, then assert_valid_month; either may raise
TestTable ==
    /\ pc = "test"
    /\ LET id == DATASET_ID[cur]
       IN  IF ~validate(table, NOT_NULL[cur], MIN_ROWS)
           THEN /\ calls' = Append(calls, <<"validate", id>>)
                /\ Raise("InvalidTable")
           ELSE IF ~assert_valid_month(table)
           THEN /\ calls' = calls \o <<<<"validate", id>>, <<"assert_valid_month", id>>>>
                /\ Raise("InvalidMonth")
           ELSE /\ calls' = calls \o <<<<"validate", id>>, <<"assert_valid_month", id>>>>
                /\ pc' = "upload"
                /\ UNCHANGED <<cur, err>>
    /\ UNCHANGED <<reader, row, processed, table, pd_args, pd_result>>

\* publish called where upload_data should be
UploadData_swapped ==
    /\ pc = "upload"
    /\ calls' = Append(calls, <<"publish", DATASET_ID[cur]>>)
    /\ pc' = "publish"
    /\ UNCHANGED <<cur, reader, row, processed, table, err, pd_args, pd_result>>

\* upload_data(table, id)
UploadData ==
    /\ pc = "upload"
    /\ calls' = Append(calls, <<"upload_data", DATASET_ID[cur]>>)
    /\ pc' = "publish"
    /\ UNCHANGED <<cur, reader, row, processed, table, err, pd_args, pd_result>>

\* publish(id, config), and the processor returns to run(): the next call, or
\* the end of run()
Publish ==
    /\ pc = "publish"
    /\ calls' = Append(calls, <<"publish", DATASET_ID[cur]>>)
    /\ IF cur < Len(DATASETS)
       THEN pc' = "lookup" /\ cur' = cur + 1
       ELSE pc' = "done" /\ cur' = cur
    /\ reader' = NoFile
    /\ row' = None
    /\ processed' = <<>>
    /\ table' = <<>>
    /\ UNCHANGED <<err, pd_args, pd_result>>

Next ==
    \/ LoadRawJson
    \/ Lookup
    \/ ScanConsumerSentiment
    \/ ScanSentimentComponents
    \/ ScanInflationExpectations
    \/ EndScan
    \/ TestTable
    \/ UploadData
    \/ Publish

Spec == Init /\ [][Next]_vars

----------------------------------------------------------------------------
(* parse_date called on its own *)

MonthArgs == {"January", " March ", "December", "Marchh", "march", "Mar", ""}
YearArgs == {"1990", " 2020 ", "999", "5", "0", "-5", "10000", "abc", ""}

InitDate ==
    /\ pc = "run"
    /\ cur = 1
    /\ reader = NoFile
    /\ row = None
    /\ processed = <<>>
    /\ table = <<>>
    /\ calls = <<>>
    /\ err = "none"
    /\ pd_args \in {Some(a) : a \in MonthArgs \X YearArgs}
    /\ pd_result = None

CallParseDate ==
    /\ pd_args # None
    /\ pd_result = None
    /\ pd_result' = Some(parse_date(pd_args[1][1], pd_args[1][2]))
    /\ UNCHANGED <<pc, cur, reader, row, processed, table, calls, err, pd_args>>

NextDate == CallParseDate

SpecDate == InitDate /\ [][NextDate]_vars

----------------------------------------------------------------------------
(* What the claims speak of *)

\* the step is one iteration of a processor's loop
IsIteration == pc = "scan" /\ reader' # reader

\* the source columns and the output fields of the processor running
NumericColumns == << <<"ICS_ALL">>, <<"ICC", "ICE">>, <<"PX_MD", "PX5_MD">> >>
OutputFields ==
    << <<"index">>, <<"index_current_conditions", "index_expectations">>,
       <<"inflation_1yr", "inflation_5yr">> >>

HasIntYear(r) == "YYYY" \in DOMAIN r /\ IsIntText(Strip(r.YYYY))
HasTextYear(r) == "YYYY" \in DOMAIN r /\ ~IsIntText(Strip(r.YYYY))
YearOf(r) == IntOf(Strip(r.YYYY))
MonthKnown(r) == "Month" \in DOMAIN r /\ Strip(r.Month) \in DOMAIN MONTH_MAP

\* a numeric cell counts as missing
Missing(r, col) ==
    \/ col \notin DOMAIN r
    \/ r[col] = None
    \/ Strip(r[col][1]) \in {"", "."}
    \/ ~IsFloatText(Strip(r[col][1]))

\* the row becomes a record of the processor running
Admissible(r) ==
    /\ HasIntYear(r) /\ YearOf(r) >= 1978
    /\ MonthKnown(r)
    /\ \E i \in DOMAIN NumericColumns[cur] : ~Missing(r, NumericColumns[cur][i])

CallsOf(fn, id) == {i \in DOMAIN calls : calls[i] = <<fn, id>>}
Emitted(id) == CallsOf("upload_data", id) # {} \/ CallsOf("publish", id) # {}
Exhausted == reader.head = 0 /\ reader.pad = 0 /\ reader.tail = 0

----------------------------------------------------------------------------
\* C1: in each of the three processors, an iteration over a row whose YYYY
\* parses to an integer below 1978 leaves the list of records as it was,
\* whatever the Month and the numeric cells of the row hold.
C1_PreCutoffRowExcluded ==
    [][ (IsIteration /\ HasIntYear(row'[1]) /\ YearOf(row'[1]) < 1978)
            => processed' = processed ]_vars

\* a 1977 row with a known month and both numeric cells valid has been scanned
\* by process_sentiment_components
C1_Witness ==
    /\ pc = "scan" /\ cur = 2 /\ row # None
    /\ HasIntYear(row[1]) /\ YearOf(row[1]) = 1977
    /\ MonthKnown(row[1])
    /\ ~Missing(row[1], "ICC") /\ ~Missing(row[1], "ICE")

----------------------------------------------------------------------------
\* C2: a row whose YYYY is non-numeric text is skipped like a year 0: no
\* invalid-literal error leaves the processor, and the run stops over such a
\* row only once the reader has yielded every row of the file.
C2_TextYearSkipped ==
    (row # None /\ HasTextYear(row[1]))
        => (err # "InvalidLiteral" /\ (pc = "aborted" => Exhausted))

----------------------------------------------------------------------------
\* every record held has a numeric field that is not null
C3_RecordsOk ==
    \A i \in DOMAIN processed :
        \E f \in DOMAIN OutputFields[cur] : processed[i][OutputFields[cur][f]] # None

\* a row with the cell `kept` present and the cell `lost` missing is appended
C3_OneMissingKept(r, kept, lost) ==
    (/\ HasIntYear(r) /\ YearOf(r) >= 1978 /\ MonthKnown(r)
     /\ ~Missing(r, NumericColumns[cur][kept])
     /\ Missing(r, NumericColumns[cur][lost]))
        => /\ Len(processed') = Len(processed) + 1
           /\ processed'[Len(processed')][OutputFields[cur][kept]] # None
           /\ processed'[Len(processed')][OutputFields[cur][lost]] = None

\* C3: an iteration of process_consumer_sentiment over a row with ICS_ALL
\* missing appends nothing, and every record it holds has a non-null index;
\* every record of the other two processors has one of its two numeric fields
\* non-null, and an iteration over a row of year >= 1978 and known month with
\* exactly one of the two cells missing appends a record whose field for the
\* missing cell is null and whose other field is not.
C3_NumericAdmission ==
    [][ IsIteration =>
          /\ C3_RecordsOk'
          /\ (cur = 1 /\ Missing(row'[1], "ICS_ALL")) => processed' = processed
          /\ cur # 1 => /\ C3_OneMissingKept(row'[1], 1, 2)
                        /\ C3_OneMissingKept(row'[1], 2, 1) ]_vars

\* process_sentiment_components has kept a row with ICC "." and ICE valid
C3_Witness ==
    /\ pc = "scan" /\ cur = 2 /\ row # None
    /\ "ICC" \in DOMAIN row[1] /\ row[1].ICC = Some(".")
    /\ ~Missing(row[1], "ICE")
    /\ processed # <<>>
    /\ processed[Len(processed)].index_current_conditions = None
    /\ processed[Len(processed)].index_expectations # None
    /\ Len(processed) = 1

----------------------------------------------------------------------------
\* C4: a dataset for which upload_data or publish was called had validate and
\* assert_valid_month called exactly once each, before them, on the table of
\* the whole file, and both passed; a run that validation ended called
\* neither upload_data nor publish for that dataset.
C4_ValidatedBeforeEmitted ==
    /\ \A d \in DOMAIN DATASET_ID :
         LET id == DATASET_ID[d]
         IN  Emitted(id) =>
               /\ Cardinality(CallsOf("validate", id)) = 1
               /\ Cardinality(CallsOf("assert_valid_month", id)) = 1
               /\ \A e \in CallsOf("upload_data", id) \cup CallsOf("publish", id) :
                    \A v \in CallsOf("validate", id) \cup CallsOf("assert_valid_month", id) :
                       v < e
    /\ pc \in {"upload", "publish"} =>
         /\ Exhausted /\ table = processed
         /\ Len(table) >= 100
         /\ \A i \in DOMAIN table : IsMonthText(table[i].month[1])
    /\ err \in {"InvalidTable", "InvalidMonth"} => ~Emitted(DATASET_ID[cur])

\* the validated table of a dataset is being uploaded
C4_Witness == pc = "upload" /\ cur = 2 /\ Len(table) = 101

----------------------------------------------------------------------------
\* C5: a table of exactly 99 records fails validation for too few rows and
\* nothing of the dataset is uploaded; a table of exactly 100 records passes
\* validation and goes on to upload_data and publish.
C5_MinRowsBoundary ==
    /\ (pc # "test" /\ Len(table) = 99) =>
          (pc = "aborted" /\ err = "InvalidTable" /\ ~Emitted(DATASET_ID[cur]))
    /\ (pc # "test" /\ Len(table) = 100) => pc \in {"upload", "publish"}

----------------------------------------------------------------------------
\* C6: a scan that ends with no record raises the no-data error before a
\* table is built: validate and assert_valid_month never see an empty table,
\* and none of validate, assert_valid_month, upload_data and publish is called
\* for that dataset.
C6_NoDataBeforeTable ==
    /\ pc \in {"test", "upload", "publish"} => (processed # <<>> /\ table # <<>>)
    /\ (pc = "aborted" /\ err = "NoData") =>
          /\ Exhausted /\ processed = <<>> /\ table = <<>>
          /\ CallsOf("validate", DATASET_ID[cur]) = {}
          /\ CallsOf("assert_valid_month", DATASET_ID[cur]) = {}
          /\ ~Emitted(DATASET_ID[cur])
    /\ (pc = "aborted" /\ Exhausted /\ processed = <<>>
            /\ err \notin {"KeyError", "InvalidLiteral"}) => err = "NoData"

\* process_inflation_expectations scanned a file with rows and found none
\* admissible
C6_Witness ==
    pc = "aborted" /\ err = "NoData" /\ cur = 3 /\ row # None /\ processed = <<>>

----------------------------------------------------------------------------
\* the dataset a call is for
DatasetOf(call) == CHOOSE d \in DOMAIN DATASET_ID : DATASET_ID[d] = call[2]
ProcessorCalls == {i \in DOMAIN calls : calls[i][1] # "load_raw_json"}

\* C7 as claimed: after a dataset before the last has failed for no data or
\* in validation, the run goes on (to the next dataset).
C7_FailureIsolated ==
    (pc = "aborted" /\ err \in {"NoData", "InvalidTable", "InvalidMonth"}
        /\ cur < Len(DATASETS)) => ENABLED Next

\* C7 as amended: the datasets are processed one after another in the order
\* of run(), and an error in one of them (no data, a failed validation, a
\* year that is no integer, a missing key) ends the run: no later dataset is
\* attempted.
C7_FailureEndsRun ==
    /\ \A i, j \in ProcessorCalls : i < j => DatasetOf(calls[i]) <= DatasetOf(calls[j])
    /\ \A i \in ProcessorCalls : DatasetOf(calls[i]) <= cur
    /\ err # "none" => (pc = "aborted" /\ ~ENABLED Next)
    /\ pc = "aborted" => err # "none"

\* consumer_sentiment failed validation and the run is over
C7_Witness ==
    pc = "aborted" /\ cur = 1 /\ err = "InvalidTable" /\ Len(table) = 99

----------------------------------------------------------------------------
\* the datasets with an upload_data call, and with a publish call
Uploaded == {d \in DOMAIN DATASET_ID : CallsOf("upload_data", DATASET_ID[d]) # {}}
Published == {d \in DOMAIN DATASET_ID : CallsOf("publish", DATASET_ID[d]) # {}}

\* what holds of the calls in every state
C10_PrefixState ==
    /\ \E n \in 0..Len(DATASETS) : Uploaded = 1..n
    /\ \A d \in Published :
         \A p \in CallsOf("publish", DATASET_ID[d]) :
            \E u \in CallsOf("upload_data", DATASET_ID[d]) : u < p
    /\ pc \in {"lookup", "scan", "test", "upload", "aborted"} =>
         (Uploaded = 1..(cur - 1) /\ Published = 1..(cur - 1))
    /\ pc = "aborted" => Uploaded # DOMAIN DATASET_ID

\* C10: the datasets uploaded are a prefix of the order of run(); a publish
\* comes after the upload_data of its dataset; while a dataset is looked up or
\* processed every earlier one has been uploaded and published; the calls made
\* are never undone, and a run that an error ended has emitted exactly the
\* datasets before the failing one.
C10_PrefixEmitted ==
    C10_PrefixState
    /\ [][ C10_PrefixState' /\ Len(calls) <= Len(calls')
           /\ SubSeq(calls', 1, Len(calls)) = calls ]_vars

\* sentiment_components failed after consumer_sentiment was uploaded and
\* published
C10_Witness ==
    pc = "aborted" /\ cur = 2 /\ Uploaded = {1} /\ Published = {1}

----------------------------------------------------------------------------
\* C8: an iteration over an admissible row appends one record, made from that
\* row, at the end of the list; an iteration over any other row leaves the
\* list as it is; the records already in the list keep their places, and a
\* record equal to an earlier one is appended all the same.
C8_RowOrderKept ==
    [][ IsIteration =>
          /\ SubSeq(processed', 1, Len(processed)) = processed
          /\ Len(processed') = Len(processed) + (IF Admissible(row'[1]) THEN 1 ELSE 0)
          /\ Admissible(row'[1]) =>
                LET m == processed'[Len(processed')].month[1]
                IN  /\ NatOf(SubSeq(m, 1, Len(m) - 3)) = YearOf(row'[1])
                    /\ NatOf(SubSeq(m, Len(m) - 1, Len(m)))
                           = MONTH_MAP[Strip(row'[1].Month)] ]_vars

\* process_consumer_sentiment holds a March 1978 record followed by two
\* equal records of February 2021
C8_Witness ==
    /\ pc = "scan" /\ cur = 1 /\ Len(processed) = 3
    /\ processed[1].month = Some("1978-03")
    /\ processed[2] = processed[3]
    /\ processed[2].month = Some("2021-02")

----------------------------------------------------------------------------
\* format(year, "04d")
Format04d(n) ==
    IF n < 0 THEN "-" \o ZeroPad(NatText(0 - n), 3) ELSE ZeroPad(NatText(n), 4)

\* C9: parse_date on a year text that is an integer returns None when the
\* stripped month name is none of the twelve of MONTH_MAP, and otherwise the
\* year padded with zeros to four digits, "-", and the month padded to two.
C9_DateFormat ==
    (pd_result # None /\ IsIntText(Strip(pd_args[1][2]))) =>
        LET m == Strip(pd_args[1][1])
            y == IntOf(Strip(pd_args[1][2]))
        IN  /\ ~pd_result[1].raised
            /\ pd_result[1].value =
                 IF m \in DOMAIN MONTH_MAP
                 THEN Some(Format04d(y) \o "-" \o Format02d(MONTH_MAP[m]))
                 ELSE None

====
